---- MODULE Spec2Model ----
(***************************************************************************)
(* Model of the presentation timer of src/script.js (the second, complete  *)
(* variant of the script, lines 1091-2826).                                *)
(*                                                                         *)
(* Instants (JavaScript Date values) are integers: milliseconds since      *)
(* local midnight of day 0.  Local days all have DayMs milliseconds (no    *)
(* daylight-saving change).  A "HH:MM:SS" string is a record [k, s]: k is  *)
(* the kind of string and s the second of the day it names.  `new Date()`  *)
(* is read once per handler: every call of a handler sees the same clock.  *)
(***************************************************************************)
EXTENDS Integers, Sequences, FiniteSets, TLC

\* ------------------------------------------------------------------------
\* Units
\* ------------------------------------------------------------------------
SecMs == 1000
MinuteMs == 60 * SecMs
DayMs == 24 * 60 * MinuteMs
DaySec == DayMs \div SecMs

\* ------------------------------------------------------------------------
\* Bounds of the model
\* ------------------------------------------------------------------------
\* the clock runs over the days 0..MaxDay, and then over them again
MaxDay == 1
\* the user performs at most MaxOps operations (start-time edits, duration
\* edits, +/-, Now, file imports) under Spec, and one more under DeepSpec
MaxOps == 1

\* ------------------------------------------------------------------------
\* JavaScript values that are not numbers
\* ------------------------------------------------------------------------
\* parseInt of text that is not a number; also the time value of an Invalid Date
NaN == -2000000000
\* a property that was never assigned
Undefined == -2000000001
\* getTime() of `new Date(NaN)`
InvalidDate == NaN
\* the referenceDate parameter left at its default
NoRef == Undefined

IsNum(x) == x # NaN /\ x # Undefined

\* ------------------------------------------------------------------------
\* Time strings
\* ------------------------------------------------------------------------
\* "hms"   : zero-padded HH:MM:SS, what formatTime produces
\* "loose" : three numeric fields in range that formatTime would not
\*           produce as written ("9:00:00")
\* "empty" : the empty string (a cleared time input)
\* "nan"   : "NaN:NaN:NaN", formatTime of an Invalid Date
\* "undef" : no string at all (a start or end that was never assigned)
Hms(sec) == [k |-> "hms", s |-> sec]
Loose(sec) == [k |-> "loose", s |-> sec]
EmptyStr == [k |-> "empty", s |-> 0]
NaNStr == [k |-> "nan", s |-> 0]
UndefStr == [k |-> "undef", s |-> 0]

\* true of the strings `if (str)` takes as true
Truthy(str) == str.k \notin {"empty", "undef"}

\* seconds of the day at h:m:s
At(h, m, s) == (h * 60 + m) * 60 + s

\* ------------------------------------------------------------------------
\* Date helpers
\* ------------------------------------------------------------------------
\* new Date(now.getFullYear(), now.getMonth(), now.getDate(), 0, 0, 0)
DayStart(t) == (t \div DayMs) * DayMs

\* a thrown exception and a returned value
Throw == [ok |-> FALSE, v |-> 0]
Ret(v) == [ok |-> TRUE, v |-> v]

\* parseTime(timeString, referenceDate) called at clock `clk`
parseTime(str, ref, clk) ==
    IF str.k \notin {"hms", "loose"}
    THEN Throw
    ELSE LET date == DayStart(clk) + str.s * SecMs
         IN  IF ref # NoRef /\ ref # InvalidDate /\ date < ref
             THEN Ret(date + DayMs)
             ELSE Ret(date)

\* a formatTime that rounds to the nearest second
formatTime_rounded(date) ==
    IF date = InvalidDate
    THEN NaNStr
    ELSE Hms(((date + 500) % DayMs) \div SecMs)

\* formatTime(date)
formatTime(date) ==
    IF date = InvalidDate
    THEN NaNStr
    ELSE Hms((date % DayMs) \div SecMs)

\* date.setMinutes(date.getMinutes() + duration); date.getTime()
setMinutes(date, duration) ==
    IF date = InvalidDate \/ ~IsNum(duration)
    THEN InvalidDate
    ELSE date + duration * MinuteMs

\* ------------------------------------------------------------------------
\* The schedule: presentationData
\* ------------------------------------------------------------------------
\* presentationData before the page has loaded anything
Null == [isNull |-> TRUE, title |-> "", start_time |-> UndefStr, sections |-> <<>>]

MkData(title, start_time, sections) ==
    [isNull |-> FALSE, title |-> title, start_time |-> start_time, sections |-> sections]

\* a section as the line parser leaves it: name and (perhaps) duration
RawSection(name, duration) ==
    [name |-> name, duration |-> duration, start |-> UndefStr, end |-> UndefStr]

\* The derivation loop shared by parseYAMLData and recalculateTimesFromStart:
\* walks the sections from index i with currentTime = cur, assigning start and
\* end in place.  `validate` is TRUE for parseYAMLData, whose loop also
\* checks name and duration.  A throw leaves the assignments already made.
\* deriveTimes with `currentTime = endTime` left out: every section is
\* derived from the schedule's start
RECURSIVE deriveTimes_noAdvance(_, _, _, _, _)
deriveTimes_noAdvance(secs, i, cur, clk, validate) ==
    IF i > Len(secs)
    THEN [ok |-> TRUE, secs |-> secs]
    ELSE IF validate /\ (secs[i].name = "" \/ secs[i].duration = Undefined)
    THEN [ok |-> FALSE, secs |-> secs]
    ELSE LET startStr == formatTime(cur)
             secs1 == [secs EXCEPT ![i].start = startStr]
             p == parseTime(startStr, cur, clk)
         IN  IF ~p.ok
             THEN [ok |-> FALSE, secs |-> secs1]
             ELSE LET endTime == setMinutes(p.v, secs[i].duration)
                      secs2 == [secs1 EXCEPT ![i].end = formatTime(endTime)]
                  IN  deriveTimes_noAdvance(secs2, i + 1, cur, clk, validate)

RECURSIVE deriveTimes(_, _, _, _, _)
deriveTimes(secs, i, cur, clk, validate) ==
    IF i > Len(secs)
    THEN [ok |-> TRUE, secs |-> secs]
    ELSE IF validate /\ (secs[i].name = "" \/ secs[i].duration = Undefined)
    THEN [ok |-> FALSE, secs |-> secs]
    ELSE LET startStr == formatTime(cur)
             secs1 == [secs EXCEPT ![i].start = startStr]
             p == parseTime(startStr, cur, clk)
         IN  IF ~p.ok
             THEN [ok |-> FALSE, secs |-> secs1]
             ELSE LET endTime == setMinutes(p.v, secs[i].duration)
                      secs2 == [secs1 EXCEPT ![i].end = formatTime(endTime)]
                  IN  deriveTimes(secs2, i + 1, endTime, clk, validate)

\* ------------------------------------------------------------------------
\* Configuration text
\* ------------------------------------------------------------------------
\* A configuration text is modelled by what the line parser extracts from it:
\* title ("" when absent), start_time (EmptyStr when absent or empty) and the
\* sections with their name and duration (Undefined when no duration line,
\* NaN when the duration is not a number).
MkText(title, start_time, sections) ==
    [title |-> title, start_time |-> start_time, sections |-> sections]

DefaultTitle == "Presentation Timer"

\* a decoder that skips the checks of the sections and of their number
parseYAMLData_noValidate(text, clk) ==
    LET title == IF text.title = "" THEN DefaultTitle ELSE text.title
        start_time == IF ~Truthy(text.start_time) THEN formatTime(clk) ELSE text.start_time
        cur == parseTime(start_time, NoRef, clk)
    IN  IF ~cur.ok
        THEN Throw
        ELSE Ret(MkData(title, start_time,
                        deriveTimes(text.sections, 1, cur.v, clk, FALSE).secs))

\* parseYAMLData(yamlText) called at clock clk: Ret(data) or Throw
parseYAMLData(text, clk) ==
    LET title == IF text.title = "" THEN DefaultTitle ELSE text.title
        start_time == IF ~Truthy(text.start_time) THEN formatTime(clk) ELSE text.start_time
    IN  IF Len(text.sections) = 0
        THEN Throw
        ELSE LET cur == parseTime(start_time, NoRef, clk)
             IN  IF ~cur.ok
                 THEN Throw
                 ELSE LET d == deriveTimes(text.sections, 1, cur.v, clk, TRUE)
                      IN  IF d.ok THEN Ret(MkData(title, start_time, d.secs)) ELSE Throw

\* a recompute that starts from the end the first section had before
recalculateTimesFromStart_fromOldEnd(data, newStartTime, clk) ==
    IF data.isNull
    THEN [data |-> data, done |-> FALSE]
    ELSE LET data1 == [data EXCEPT !.start_time = newStartTime]
             cur == parseTime(IF Len(data.sections) > 0 THEN data.sections[1].end
                              ELSE newStartTime, NoRef, clk)
         IN  IF ~cur.ok
             THEN [data |-> data1, done |-> FALSE]
             ELSE LET d == deriveTimes(data1.sections, 1, cur.v, clk, FALSE)
                  IN  [data |-> [data1 EXCEPT !.sections = d.secs], done |-> d.ok]

\* a recompute that resets the title
recalculateTimesFromStart_rewrites(data, newStartTime, clk) ==
    IF data.isNull
    THEN [data |-> data, done |-> FALSE]
    ELSE LET data1 == [data EXCEPT !.start_time = newStartTime, !.title = DefaultTitle]
             cur == parseTime(newStartTime, NoRef, clk)
         IN  IF ~cur.ok
             THEN [data |-> data1, done |-> FALSE]
             ELSE LET d == deriveTimes(data1.sections, 1, cur.v, clk, FALSE)
                  IN  [data |-> [data1 EXCEPT !.sections = d.secs], done |-> d.ok]

\* recalculateTimesFromStart(newStartTime) called at clock clk: the new
\* presentationData and whether the function reached updateTimelineDisplay()
recalculateTimesFromStart(data, newStartTime, clk) ==
    IF data.isNull
    THEN [data |-> data, done |-> FALSE]
    ELSE LET data1 == [data EXCEPT !.start_time = newStartTime]
             cur == parseTime(newStartTime, NoRef, clk)
         IN  IF ~cur.ok
             THEN [data |-> data1, done |-> FALSE]
             ELSE LET d == deriveTimes(data1.sections, 1, cur.v, clk, FALSE)
                  IN  [data |-> [data1 EXCEPT !.sections = d.secs], done |-> d.ok]

\* ------------------------------------------------------------------------
\* Resolution of a section's interval, as getCurrentSection, createTimelineItem
\* and updateTimelineItem all do it
\* ------------------------------------------------------------------------
\* `const x = v; body`: the value is computed once and named in the body
With(v, body(_)) == body(v)

\* a resolution that threw
Unresolved == [ok |-> FALSE, start |-> 0, end |-> 0]

\* [ok, start, end]: the instants of section i resolved at clock clk; ok is
\* FALSE when one of the three parseTime calls throws
resolveSection(data, i, clk) ==
    With(parseTime(data.start_time, NoRef, clk), LAMBDA ps :
      IF ~ps.ok THEN Unresolved
      ELSE With(parseTime(data.sections[i].start, ps.v, clk), LAMBDA st :
        IF ~st.ok THEN Unresolved
        ELSE With(parseTime(data.sections[i].end, st.v, clk), LAMBDA en :
          IF ~en.ok THEN Unresolved
          ELSE [ok |-> TRUE, start |-> st.v, end |-> en.v])))

\* the value null of getCurrentSection
NoSection == [found |-> FALSE, name |-> "", start |-> 0, end |-> 0, index |-> -1]

\* sectionContains with `currentTime <= sectionEnd` for `currentTime < sectionEnd`
sectionContains_closed(data, i, t) ==
    With(resolveSection(data, i, t), LAMBDA r :
      r.ok /\ t >= r.start /\ t <= r.end)

\* sectionContains without `currentTime >= sectionStart`
sectionContains_noStart(data, i, t) ==
    With(resolveSection(data, i, t), LAMBDA r :
      r.ok /\ t < r.end)

\* the test of getCurrentSection on section i (1-based) at time t; a throw of
\* parseTime is caught per section and the section is skipped
sectionContains(data, i, t) ==
    With(resolveSection(data, i, t), LAMBDA r :
      r.ok /\ t >= r.start /\ t < r.end)

\* the least element of a non-empty set of indices
First(hits) == CHOOSE j \in hits : \A k \in hits : j <= k

\* a getCurrentSection that tests the first section only
getCurrentSection_firstOnly(data, t) ==
    IF Len(data.sections) > 0 /\ sectionContains(data, 1, t)
    THEN With(resolveSection(data, 1, t), LAMBDA r :
           [found |-> TRUE, name |-> data.sections[1].name,
            start |-> r.start, end |-> r.end, index |-> 0])
    ELSE NoSection

\* getCurrentSection(time).  Sequences are 1-based; the index returned is the
\* code's 0-based index.
getCurrentSection(data, t) ==
    With({i \in 1..Len(data.sections) : sectionContains(data, i, t)}, LAMBDA hits :
      IF hits = {}
      THEN NoSection
      ELSE With(First(hits), LAMBDA i :
        With(resolveSection(data, i, t), LAMBDA r :
          [found |-> TRUE, name |-> data.sections[i].name,
           start |-> r.start, end |-> r.end, index |-> i - 1])))

\* presentationData.sections.findIndex(s => s.name === name), 0-based, -1 if none
findIndex(data, name) ==
    With({i \in 1..Len(data.sections) : data.sections[i].name = name}, LAMBDA hits :
      IF hits = {} THEN -1 ELSE First(hits) - 1)

\* ------------------------------------------------------------------------
\* Rendering
\* ------------------------------------------------------------------------
\* previousSectionName = null, currentSectionName = null
NullName == "<null>"

\* thresholds of the countdown readout
OneMinuteMs == 1 * 60 * 1000
FiveMinutesMs == 5 * 60 * 1000

\* the readout text '' (Complete, not after the last end)
EmptyReadout == -1

\* What the page shows: ok is FALSE when the last updateDisplay() threw, phase
\* is the text of current-section-name, index the section shown as current
\* (-1 if none), readout the milliseconds shown in time-remaining, color its
\* colour class.
NoDisplay == [ok |-> TRUE, phase |-> "Loading", index |-> -1, readout |-> 0, color |-> "none"]

MkDisplay(phase, index, readout, color) ==
    [ok |-> TRUE, phase |-> phase, index |-> index, readout |-> readout, color |-> color]

\* readoutColor with `<` for `<=` at the one-minute threshold
readoutColor_underOneMinute(timeRemaining) ==
    IF timeRemaining <= 0 THEN "red"
    ELSE IF timeRemaining < OneMinuteMs THEN "red"
    ELSE IF timeRemaining <= FiveMinutesMs THEN "yellow"
    ELSE "green"

\* the colour class of the readout while a section is current
readoutColor(timeRemaining) ==
    IF timeRemaining <= 0 THEN "red"
    ELSE IF timeRemaining <= OneMinuteMs THEN "red"
    ELSE IF timeRemaining <= FiveMinutesMs THEN "yellow"
    ELSE "green"

\* the name updateTimelineDisplay() stores for the current section cs
sectionName(cs) == IF cs.found THEN cs.name ELSE NullName

\* updateTimelineDisplay(): the new previousSectionName
updateTimelineDisplay(data, prev, clk) ==
    IF data.isNull
    THEN prev
    ELSE sectionName(getCurrentSection(data, clk))

\* getTimeStatus with `now >= end` for `now > end`
getTimeStatus_redAtEnd(currentTime, startTime, endTime) ==
    IF currentTime >= endTime THEN "red"
    ELSE IF currentTime >= endTime - FiveMinutesMs THEN "yellow"
    ELSE "green"

\* the colour class getTimeStatus(currentTime, startTime, endTime) returns
getTimeStatus(currentTime, startTime, endTime) ==
    IF currentTime > endTime THEN "red"
    ELSE IF currentTime >= endTime - FiveMinutesMs THEN "yellow"
    ELSE "green"

\* The timeline is the sequence of the colour classes of the time boxes of
\* the items section-0, section-1, ...; Absent where the item does not exist
Absent == "absent"

\* timeline.querySelectorAll('.timeline-item').length
existingItems(rows) == Cardinality({i \in 1..Len(rows) : rows[i] # Absent})

\* The item of section i after the loop of updateTimelineDisplay(): created
\* or recoloured when its three parseTime calls succeed; when one throws, a
\* rebuilt timeline has no such item and an updated one keeps the item as it
\* was (the fallback createTimelineItem(.., currentSectionName, ..) of
\* updateTimelineItem throws a ReferenceError, so a missing item stays missing)
timelineItem(data, rows, i, rebuild, clk) ==
    With(IF i <= Len(data.sections) THEN resolveSection(data, i, clk) ELSE Unresolved,
         LAMBDA r :
      IF r.ok /\ (rebuild \/ (i <= Len(rows) /\ rows[i] # Absent))
      THEN getTimeStatus(clk, r.start, r.end)
      ELSE IF rebuild \/ i > Len(rows)
      THEN Absent
      ELSE rows[i])

\* the items of the timeline after updateTimelineDisplay() at clock clk
timelineRows(data, rows, clk) ==
    IF data.isNull
    THEN rows
    ELSE With(existingItems(rows) # Len(data.sections), LAMBDA needsFullRebuild :
      [i \in 1..(IF needsFullRebuild \/ Len(rows) < Len(data.sections)
                 THEN Len(data.sections) ELSE Len(rows))
         |-> timelineItem(data, rows, i, needsFullRebuild, clk)])

\* the items of the timeline after updateDisplay() with outcome u: cleared by
\* the no-sections branch, updated when updateDisplay reaches its last lines
rowsAfterDisplay(data, rows, u, clk) ==
    IF data.isNull THEN rows
    ELSE IF Len(data.sections) = 0 THEN <<>>
    ELSE IF u.threw THEN rows
    ELSE timelineRows(data, rows, clk)

\* The text of the next-section element: empty as the page is delivered,
\* `name (duration m)` of a section, or "End of presentation"
NoNextText == [k |-> "empty", name |-> "", duration |-> 0]
EndOfPresentation == [k |-> "end", name |-> "End of presentation", duration |-> 0]
NextText(section) == [k |-> "section", name |-> section.name, duration |-> section.duration]

\* The text updateNextSectionDisplay() and the first lines of
\* updateTimelineDisplay() leave in the next-section element at clock clk
updateNextSectionDisplay(data, next, clk) ==
    IF data.isNull
    THEN next
    ELSE With(getCurrentSection(data, clk), LAMBDA cs :
      With(IF cs.found THEN findIndex(data, cs.name) ELSE -1, LAMBDA currentSectionIndex :
        IF currentSectionIndex # -1 /\ currentSectionIndex < Len(data.sections) - 1
        THEN NextText(data.sections[currentSectionIndex + 2])
        ELSE IF currentSectionIndex = -1 /\ Len(data.sections) > 0
        THEN NextText(data.sections[1])
        ELSE EndOfPresentation))

\* the next-section element after updateDisplay() with outcome u: written
\* when updateDisplay reaches its last lines
nextAfterDisplay(data, next, u, clk) ==
    IF data.isNull THEN next
    ELSE IF Len(data.sections) = 0 THEN next
    ELSE IF u.threw THEN next
    ELSE updateNextSectionDisplay(data, next, clk)

\* The page state a handler works on
World(data, disp, prev, rows, next) ==
    [data |-> data, display |-> disp, prev |-> prev, rows |-> rows, next |-> next]

\* the outcome of updateDisplay(): the display left and whether it threw
Shown(disp, prev) == [threw |-> FALSE, display |-> disp, prev |-> prev]
Thrown(disp, prev) == [threw |-> TRUE, display |-> disp, prev |-> prev]

\* the last branch of updateDisplay(): no section is current
showComplete(data, disp, prev, cs, clk) ==
    With(resolveSection(data, Len(data.sections), clk), LAMBDA last :
      IF ~last.ok
      THEN Thrown([disp EXCEPT !.ok = FALSE, !.phase = "Complete", !.index = -1], prev)
      ELSE IF clk - last.end > 0
      THEN Shown(MkDisplay("Complete", -1, clk - last.end, "red"), sectionName(cs))
      ELSE Shown(MkDisplay("Complete", -1, EmptyReadout, "none"), sectionName(cs)))

\* an updateDisplay that parses the start time before it looks for sections
updateDisplay_parsesFirst(data, disp, prev, clk) ==
    IF data.isNull
    THEN Shown(disp, prev)
    ELSE With(parseTime(data.start_time, NoRef, clk), LAMBDA ps :
      IF ~ps.ok
      THEN Thrown([disp EXCEPT !.ok = FALSE], prev)
      ELSE IF Len(data.sections) = 0
      THEN Shown(MkDisplay("NoData", -1, 0, "none"), prev)
      ELSE With(getCurrentSection(data, clk), LAMBDA cs :
        IF clk < ps.v
        THEN Shown(MkDisplay("NotStarted", -1, ps.v - clk, "blue"), sectionName(cs))
        ELSE IF cs.found
        THEN Shown(MkDisplay("InSection", cs.index, cs.end - clk,
                             readoutColor(cs.end - clk)), sectionName(cs))
        ELSE showComplete(data, disp, prev, cs, clk)))

\* updateDisplay() at clock clk: [threw, display, prev]
updateDisplay(data, disp, prev, clk) ==
    IF data.isNull
    THEN Shown(disp, prev)
    ELSE IF Len(data.sections) = 0
    THEN Shown(MkDisplay("NoData", -1, 0, "none"), prev)
    ELSE With(getCurrentSection(data, clk), LAMBDA cs :
      With(parseTime(data.start_time, NoRef, clk), LAMBDA ps :
        IF ~ps.ok
        THEN Thrown([disp EXCEPT !.ok = FALSE], prev)
        ELSE IF clk < ps.v
        THEN Shown(MkDisplay("NotStarted", -1, ps.v - clk, "blue"), sectionName(cs))
        ELSE IF cs.found
        THEN Shown(MkDisplay("InSection", cs.index, cs.end - clk,
                             readoutColor(cs.end - clk)), sectionName(cs))
        ELSE showComplete(data, disp, prev, cs, clk)))

\* a handler's tail `recalculateTimesFromStart(x); updateDisplay();` on world w;
\* an exception of updateDisplay() is the caller's to catch
recalcAndDisplay(w, newStartTime, clk) ==
    With(recalculateTimesFromStart(w.data, newStartTime, clk), LAMBDA r :
      With(IF r.done THEN updateTimelineDisplay(r.data, w.prev, clk) ELSE w.prev,
           LAMBDA prev1 :
        With(updateDisplay(r.data, w.display, prev1, clk), LAMBDA u :
          World(r.data, u.display, u.prev,
                rowsAfterDisplay(r.data,
                                 IF r.done THEN timelineRows(r.data, w.rows, clk)
                                 ELSE w.rows,
                                 u, clk),
                nextAfterDisplay(r.data,
                                 IF r.done
                                 THEN updateNextSectionDisplay(r.data, w.next, clk)
                                 ELSE w.next,
                                 u, clk)))))

\* updateSectionDuration without its test of newDuration
updateSectionDuration_anyDuration(w, sectionIndex, newDuration, clk) ==
    IF w.data.isNull
    THEN w
    ELSE IF sectionIndex # NaN /\ (sectionIndex < 0 \/ sectionIndex >= Len(w.data.sections))
    THEN w
    ELSE IF sectionIndex = NaN
    THEN w
    ELSE recalcAndDisplay(
             [w EXCEPT !.data.sections[sectionIndex + 1].duration = newDuration],
             w.data.start_time, clk)

\* updateSectionDuration(sectionIndex, newDuration) on world w.  sectionIndex is
\* 0-based; NaN is parseInt of an unreadable data-index.
updateSectionDuration(w, sectionIndex, newDuration, clk) ==
    IF w.data.isNull
    THEN w
    ELSE IF sectionIndex # NaN /\ (sectionIndex < 0 \/ sectionIndex >= Len(w.data.sections))
    THEN w
    ELSE IF newDuration = NaN \/ newDuration = Undefined \/ newDuration = 0 \/ newDuration < 1
    THEN w
    ELSE IF sectionIndex = NaN
    THEN w
    ELSE recalcAndDisplay(
             [w EXCEPT !.data.sections[sectionIndex + 1].duration = newDuration],
             w.data.start_time, clk)

\* section.duration + minutes
plusMinutes(d, minutes) == IF IsNum(d) THEN d + minutes ELSE NaN

\* an adjustCurrent that adjusts the last section when none is current
adjustCurrent_lastWhenNone(w, minutes, clk) ==
    With(getCurrentSection(w.data, clk), LAMBDA cs :
      With(IF cs.found THEN findIndex(w.data, cs.name) ELSE Len(w.data.sections) - 1,
           LAMBDA sectionIndex :
        IF sectionIndex = -1
        THEN w
        ELSE With(plusMinutes(w.data.sections[sectionIndex + 1].duration, minutes),
                  LAMBDA newDuration :
          IF newDuration # NaN /\ newDuration < 1
          THEN w
          ELSE updateSectionDuration(w, sectionIndex, newDuration, clk))))

\* the branch of adjustTimes(minutes) taken once the presentation has started
adjustCurrent(w, minutes, clk) ==
    With(getCurrentSection(w.data, clk), LAMBDA cs :
      With(findIndex(w.data, cs.name), LAMBDA sectionIndex :
        IF ~cs.found \/ sectionIndex = -1
        THEN w
        ELSE With(plusMinutes(w.data.sections[sectionIndex + 1].duration, minutes),
                  LAMBDA newDuration :
          IF newDuration # NaN /\ newDuration < 1
          THEN w
          ELSE updateSectionDuration(w, sectionIndex, newDuration, clk))))

\* adjustTimes(minutes) on world w
adjustTimes(w, minutes, clk) ==
    IF w.data.isNull
    THEN w
    ELSE With(parseTime(w.data.start_time, NoRef, clk), LAMBDA ps :
      IF ~ps.ok
      THEN w
      ELSE IF clk < ps.v
      THEN recalcAndDisplay(w, formatTime(ps.v + minutes * MinuteMs), clk)
      ELSE adjustCurrent(w, minutes, clk))

\* ------------------------------------------------------------------------
\* Inputs: clock readings, configuration texts, values typed by the user
\* ------------------------------------------------------------------------
\* the instant of day `day` at h:m:s.ms
Instant(day, h, m, sec, ms) == day * DayMs + At(h, m, sec) * SecMs + ms

\* the times of day at which the clock is read
ClockOffsets ==
    { Instant(0, 0, 0, 0, 0), Instant(0, 8, 59, 0, 0), Instant(0, 9, 0, 0, 500),
      Instant(0, 9, 10, 0, 0), Instant(0, 9, 50, 0, 0),
      Instant(0, 23, 50, 0, 0), Instant(0, 23, 58, 0, 0) }

NowSamples == {d * DayMs + o : d \in 0..MaxDay, o \in ClockOffsets}

\* the first and the last reading of the clock
FirstSample == CHOOSE t \in NowSamples : \A u \in NowSamples : t <= u
LastSample == CHOOSE t \in NowSamples : \A u \in NowSamples : t >= u

\* The clock read at `from` is read next at `to`: later, or, after the last
\* reading, at the first one again.  The code computes every instant from
\* today's midnight and keeps no date (parseTime), so the day after day MaxDay
\* is to the page what day 0 is.
ClockMoves(from, to) ==
    \/ to > from
    \/ from = LastSample /\ to = FirstSample

T_demo ==
    MkText("Demo", Hms(At(9, 0, 0)),
           <<RawSection("Intro", 10), RawSection("Body", 25), RawSection("QA", 15)>>)
T_night ==
    MkText("", Hms(At(23, 50, 0)), <<RawSection("A", 20), RawSection("B", 10)>>)
T_long ==
    MkText("Long", Loose(At(9, 0, 0)),
           <<RawSection("L1", 1000), RawSection("L2", 500), RawSection("L3", 10)>>)
T_none ==
    MkText("Nothing", Hms(At(9, 0, 0)), <<>>)
\* durations the line parser reads as 0, -5 and NaN (parseInt of "soon")
T_zero ==
    MkText("Zero", Hms(At(9, 0, 0)),
           <<RawSection("Z0", 0), RawSection("Zneg", -5), RawSection("Znan", NaN)>>)
\* the second section has no duration line
T_half ==
    MkText("Half", Hms(At(9, 0, 0)),
           <<RawSection("H1", 10), RawSection("H2", Undefined)>>)
\* no title line and no start_time line
T_bare ==
    MkText("", EmptyStr, <<RawSection("Only", 5)>>)
\* two sections of the same name; the second one runs 09:10:00-09:11:00
T_dup ==
    MkText("Dup", Hms(At(9, 0, 0)),
           <<RawSection("Talk", 10), RawSection("Talk", 1)>>)

\* localStorage.getItem(STORAGE_KEY) = null
NoText == MkText("<null>", UndefStr, <<>>)

\* what localStorage may hold when the page loads
StoredTexts == {NoText, T_night, T_half}

\* what fetch('presentation_times.yaml') may do
FetchOutcomes ==
    { [kind |-> "ok", text |-> T_demo], [kind |-> "ok", text |-> T_none],
      [kind |-> "ok", text |-> T_dup], [kind |-> "ok", text |-> T_bare],
      [kind |-> "404", text |-> NoText], [kind |-> "status", text |-> NoText],
      [kind |-> "Failed to fetch", text |-> NoText],
      [kind |-> "NetworkError", text |-> NoText] }

\* the files the user may import
ImportTexts == {T_long, T_zero, T_half}

\* values of the start-time input: "" (cleared) and "23:59"
StartInputs == {EmptyStr, Hms(At(23, 59, 0))}

\* a whole day in minutes, typed into a duration input
DayMinutes == DayMs \div MinuteMs

\* The calls updateSectionDuration(parseInt(index), parseInt(value)) made from
\* the duration inputs: each of the first three sections set to a whole day,
\* the second section set to 20 minutes, the first set to 4 minutes, and one
\* call for each way of being refused (index below 0, index 3 past the
\* longest schedule, index unreadable; value 0, negative, unreadable)
DurationRequests ==
    {<<i, DayMinutes>> : i \in 0..2}
        \cup {<<1, 20>>, <<0, 4>>}
        \cup {<<-1, 20>>, <<3, 20>>, <<NaN, 20>>, <<0, 0>>, <<0, -3>>, <<0, NaN>>}

\* ------------------------------------------------------------------------
\* State
\* ------------------------------------------------------------------------
VARIABLES
    now,                  \* the clock at the last handler run
    presentationData,     \* the schedule in force
    previousSectionName,  \* the section name seen by the last timeline update
    timeline,             \* the colour classes of the timeline items
    nextSection,          \* the text of the next-section element
    display,              \* what the page shows
    storage,              \* localStorage[STORAGE_KEY]
    listening,            \* the event listeners are registered
    intervalOn,           \* setInterval(updateDisplay, 1000) is running
    pending,              \* texts of the FileReaders still reading
    ops,                  \* number of user operations so far
    lastOp                \* the handler that ran last, with its arguments

vars == <<now, presentationData, previousSectionName, timeline, nextSection, display, storage,
          listening, intervalOn, pending, ops, lastOp>>

Op(name, idx, val, str) == [op |-> name, idx |-> idx, val |-> val, str |-> str]

world == World(presentationData, display, previousSectionName, timeline, nextSection)

\* the handler leaves the page in world w
Becomes(w) ==
    /\ presentationData' = w.data
    /\ display' = w.display
    /\ previousSectionName' = w.prev
    /\ timeline' = w.rows
    /\ nextSection' = w.next

\* a user operation, while fewer than `budget` were performed
UserOp(budget) ==
    /\ listening
    /\ ops < budget
    /\ ops' = ops + 1

Init ==
    /\ now = Instant(0, 0, 0, 0, 0)
    /\ presentationData = Null
    /\ previousSectionName = NullName
    /\ timeline = <<>>
    /\ nextSection = NoNextText
    /\ display = NoDisplay
    /\ storage \in StoredTexts
    /\ listening = FALSE
    /\ intervalOn = FALSE
    /\ pending = {}
    /\ ops = 0
    /\ lastOp = Op("none", 0, 0, UndefStr)

\* loadPresentationData() when fetch does f: Ret(data) or Throw
loadPresentationData(f, clk) ==
    IF f.kind = "ok"
    THEN parseYAMLData(f.text, clk)
    ELSE IF f.kind \in {"404", "Failed to fetch"}
    THEN Ret(MkData(DefaultTitle, formatTime(clk), <<>>))
    ELSE Throw

\* how many of the texts the page tried at startup did not decode: the
\* persisted one (when there is one) and the fetched default configuration
\* (when the page came to fetch it and the response was a text)
decodeFailures(saved, f, clk) ==
    (IF saved # NoText /\ ~parseYAMLData(saved, clk).ok THEN 1 ELSE 0)
    + (IF (saved = NoText \/ ~parseYAMLData(saved, clk).ok)
          /\ f.kind = "ok" /\ ~parseYAMLData(f.text, clk).ok
       THEN 1 ELSE 0)

\* The DOMContentLoaded handler, run at clock t with fetch doing f
Startup(t, f) ==
    /\ lastOp.op = "none"
    /\ t \in NowSamples /\ t >= now
    /\ now' = t
    /\ With(IF storage = NoText THEN Throw ELSE parseYAMLData(storage, t), LAMBDA saved :
         With(IF saved.ok THEN saved ELSE loadPresentationData(f, t), LAMBDA loaded :
           With(updateDisplay(loaded.v, display, previousSectionName, t), LAMBDA u :
             /\ storage' = IF storage # NoText /\ ~saved.ok THEN NoText ELSE storage
             /\ IF ~loaded.ok
                THEN /\ UNCHANGED <<presentationData, display, previousSectionName,
                                    timeline, nextSection>>
                     /\ listening' = FALSE
                     /\ intervalOn' = FALSE
                ELSE /\ Becomes(World(loaded.v, u.display, u.prev,
                                      rowsAfterDisplay(loaded.v, timeline, u, t),
                                      nextAfterDisplay(loaded.v, nextSection, u, t)))
                     /\ listening' = TRUE
                     /\ intervalOn' = ~u.threw)))
    /\ lastOp' = Op("startup", 0, decodeFailures(storage, f, t), UndefStr)
    /\ UNCHANGED <<pending, ops>>

\* a timer that is cancelled when its callback throws
timerAfter_clearedOnThrow(threw) == ~threw

\* Whether the timer of setInterval(updateDisplay, 1000) is still set after
\* a run of the callback: an exception the callback rethrows is reported by
\* the event loop and the interval stays; the page never calls clearInterval
timerAfter(threw) == TRUE

\* One firing of setInterval(updateDisplay, 1000), at clock t
Tick(t) ==
    /\ intervalOn
    /\ t \in NowSamples /\ ClockMoves(now, t)
    /\ now' = t
    /\ With(updateDisplay(presentationData, display, previousSectionName, t), LAMBDA u :
         /\ Becomes(World(presentationData, u.display, u.prev,
                          rowsAfterDisplay(presentationData, timeline, u, t),
                          nextAfterDisplay(presentationData, nextSection, u, t)))
         /\ intervalOn' = timerAfter(u.threw))
    /\ lastOp' = Op("tick", 0, 0, UndefStr)
    /\ UNCHANGED <<storage, listening, pending, ops>>

\* The start-time input's change handler with value v
StartTimeChange(v, budget) ==
    /\ UserOp(budget)
    /\ Becomes(recalcAndDisplay(world, v, now))
    /\ lastOp' = Op("startTimeChange", 0, 0, v)
    /\ UNCHANGED <<now, storage, listening, intervalOn, pending>>

\* The start-time input's input handler with value v
StartTimeInput(v, budget) ==
    /\ UserOp(budget)
    /\ IF Truthy(v)
       THEN Becomes(recalcAndDisplay(world, v, now))
       ELSE UNCHANGED <<presentationData, display, previousSectionName, timeline,
                        nextSection>>
    /\ lastOp' = Op("startTimeInput", 0, 0, v)
    /\ UNCHANGED <<now, storage, listening, intervalOn, pending>>

\* The Now button's click handler
NowButton(budget) ==
    /\ UserOp(budget)
    /\ Becomes(recalcAndDisplay(world, formatTime(now), now))
    /\ lastOp' = Op("now", 0, 0, formatTime(now))
    /\ UNCHANGED <<now, storage, listening, intervalOn, pending>>

\* The + and - buttons' click handlers: adjustTimes(minutes)
PlusMinus(minutes, budget) ==
    /\ UserOp(budget)
    /\ Becomes(adjustTimes(world, minutes, now))
    /\ lastOp' = Op("adjustTimes", 0, minutes, UndefStr)
    /\ UNCHANGED <<now, storage, listening, intervalOn, pending>>

\* A duration input's change handler with request r = <<index, value>>:
\* updateSectionDuration(parseInt(index), parseInt(value))
DurationChange(r, budget) ==
    /\ UserOp(budget)
    /\ Becomes(updateSectionDuration(world, r[1], r[2], now))
    /\ lastOp' = Op("updateSectionDuration", r[1], r[2], UndefStr)
    /\ UNCHANGED <<now, storage, listening, intervalOn, pending>>

\* The file input's change handler: importYAMLFile(file) starts a FileReader
ImportStart(text, budget) ==
    /\ UserOp(budget)
    /\ text \notin pending
    /\ pending' = pending \cup {text}
    /\ lastOp' = Op("importStart", 0, 0, UndefStr)
    /\ UNCHANGED <<now, presentationData, previousSectionName, timeline, nextSection,
                   display, storage, listening, intervalOn>>

\* an onload that recomputes the imported sections from the start time of
\* the schedule it replaces
importYAMLFile_keepStart(w, text, clk) ==
    With(parseYAMLData(text, clk), LAMBDA newData :
      IF ~newData.ok
      THEN [ok |-> FALSE, w |-> w]
      ELSE [ok |-> TRUE,
            w |-> recalcAndDisplay(World(newData.v, w.display, w.prev, w.rows, w.next),
                                   w.data.start_time, clk)])

\* an onload that installs nothing once an imported schedule is in force
importYAMLFile_firstWins(w, text, clk) ==
    With(parseYAMLData(text, clk), LAMBDA newData :
      IF ~newData.ok
      THEN [ok |-> FALSE, w |-> w]
      ELSE IF w.data.title \in {t.title : t \in ImportTexts}
      THEN [ok |-> TRUE, w |-> w]
      ELSE [ok |-> TRUE,
            w |-> recalcAndDisplay(World(newData.v, w.display, w.prev, w.rows, w.next),
                                   newData.v.start_time, clk)])

\* The body of reader.onload in importYAMLFile, for the file content `text`,
\* on world w: whether the text decoded, and the world it leaves
importYAMLFile(w, text, clk) ==
    With(parseYAMLData(text, clk), LAMBDA newData :
      IF ~newData.ok
      THEN [ok |-> FALSE, w |-> w]
      ELSE [ok |-> TRUE,
            w |-> recalcAndDisplay(World(newData.v, w.display, w.prev, w.rows, w.next),
                                   newData.v.start_time, clk)])

\* a reader.onload that saves the text before it decodes it
ImportLoad_savesFirst(text) ==
    /\ text \in pending
    /\ pending' = pending \ {text}
    /\ With(importYAMLFile(world, text, now), LAMBDA r :
         /\ storage' = text
         /\ Becomes(r.w))
    /\ lastOp' = Op("importLoad", 0,
                    (IF lastOp.op = "importLoad" THEN lastOp.val ELSE 0) + 1, UndefStr)
    /\ UNCHANGED <<now, listening, intervalOn, ops>>

\* reader.onload of the FileReader reading `text`; lastOp.val counts the
\* completions that followed one another with no other step in between
ImportLoad(text) ==
    /\ text \in pending
    /\ pending' = pending \ {text}
    /\ With(importYAMLFile(world, text, now), LAMBDA r :
         /\ storage' = IF r.ok THEN text ELSE storage
         /\ Becomes(r.w))
    /\ lastOp' = Op("importLoad", 0,
                    (IF lastOp.op = "importLoad" THEN lastOp.val ELSE 0) + 1, UndefStr)
    /\ UNCHANGED <<now, listening, intervalOn, ops>>

\* the steps of the page when the user performs at most `budget` operations
Step(budget) ==
    \/ \E t \in NowSamples, f \in FetchOutcomes : Startup(t, f)
    \/ \E t \in NowSamples : Tick(t)
    \/ \E v \in StartInputs : StartTimeChange(v, budget)
    \/ \E v \in StartInputs : StartTimeInput(v, budget)
    \/ NowButton(budget)
    \/ \E m \in {1, -1} : PlusMinus(m, budget)
    \/ \E r \in DurationRequests : DurationChange(r, budget)
    \/ \E text \in ImportTexts : ImportStart(text, budget)
    \/ \E text \in ImportTexts : ImportLoad(text)

Next == Step(MaxOps)

Spec == Init /\ [][Next]_vars

\* the same page when the user may perform one more operation
DeepNext == Step(MaxOps + 1)

DeepSpec == Init /\ [][DeepNext]_vars

\* The page with imports and duration edits only, the clock standing still,
\* when the user may perform two more operations: room for two imports in
\* flight and an edit between their completions
ImportNext ==
    \/ \E t \in NowSamples, f \in FetchOutcomes : Startup(t, f)
    \/ \E r \in DurationRequests : DurationChange(r, MaxOps + 2)
    \/ \E text \in ImportTexts : ImportStart(text, MaxOps + 2)
    \/ \E text \in ImportTexts : ImportLoad(text)

ImportSpec == Init /\ [][ImportNext]_vars

\* The page left alone: it loads, then only the interval timer runs.  The
\* timer keeps firing for as long as the page is open.
LiveNext ==
    \/ \E t \in NowSamples, f \in FetchOutcomes : Startup(t, f)
    \/ \E t \in NowSamples : Tick(t)

\* the clock moves on under a running interval timer: what every Tick does to
\* the clock, and only a Tick does
TimerFires ==
    /\ intervalOn
    /\ \E t \in NowSamples : ClockMoves(now, t) /\ now' = t

\* setInterval fires again and again: the timer cannot stay due forever
LiveSpec == Init /\ [][LiveNext]_vars /\ WF_now(TimerFires)

\* ------------------------------------------------------------------------
\* Properties
\* ------------------------------------------------------------------------
\* a schedule whose start time parses and whose durations are all numbers >= 1
ValidSchedule(data) ==
    /\ ~data.isNull
    /\ data.start_time.k \in {"hms", "loose"}
    /\ \A i \in 1..Len(data.sections) :
          IsNum(data.sections[i].duration) /\ data.sections[i].duration >= 1

\* C1: whenever the schedule has a start time that parses and every duration
\* is at least 1, the first section's start is the schedule's start time of
\* day and every section ends at the time its successor starts.
C1_RecomputeChains ==
    ValidSchedule(presentationData) /\ Len(presentationData.sections) > 0 =>
        /\ presentationData.sections[1].start = Hms(presentationData.start_time.s)
        /\ \A i \in 1..(Len(presentationData.sections) - 1) :
              presentationData.sections[i].end = presentationData.sections[i + 1].start

\* C1 witness: a valid schedule of three sections that
\* recalculateTimesFromStart has just re-derived after a duration edit
C1_Witness ==
    /\ lastOp.op = "updateSectionDuration"
    /\ ValidSchedule(presentationData)
    /\ Len(presentationData.sections) = 3
    /\ lastOp.idx = 1
    /\ presentationData.sections[2].duration = lastOp.val

\* the number of sections of the schedule in force
NSections == Len(presentationData.sections)

\* C2: every section of a valid schedule resolves to an interval that lasts
\* exactly its duration in minutes (an end past midnight falls on the day
\* after its start).
C2_EndIsStartPlusDuration ==
    ValidSchedule(presentationData) =>
        \A i \in 1..NSections :
            LET r == resolveSection(presentationData, i, now)
            IN  /\ r.ok
                /\ r.end - r.start = presentationData.sections[i].duration * MinuteMs

\* section i's resolved interval contains the clock, start included, end excluded
Within(i) ==
    LET r == resolveSection(presentationData, i, now)
    IN  r.ok /\ r.start <= now /\ now < r.end

StartInstant == parseTime(presentationData.start_time, NoRef, now).v

\* C4: after a tick on a valid, non-empty schedule the phase shown is
\* NotStarted exactly when the clock is before the start, InSection exactly
\* when it is not and getCurrentSection returns a section, Complete otherwise;
\* and getCurrentSection returns null when the clock is before the first
\* section's start or at or after the last section's end.
C4_PhaseFollowsClock ==
    lastOp.op = "tick" /\ ValidSchedule(presentationData) /\ NSections > 0 =>
        LET cs == getCurrentSection(presentationData, now)
            first == resolveSection(presentationData, 1, now)
            last == resolveSection(presentationData, NSections, now)
        IN  /\ display.phase = "NotStarted" <=> now < StartInstant
            /\ display.phase = "InSection" <=> now >= StartInstant /\ cs.found
            /\ display.phase = "Complete" <=> now >= StartInstant /\ ~cs.found
            /\ now < first.start \/ now >= last.end => ~cs.found

\* the place of a phase on the line NotStarted, InSection(0), InSection(1),
\* ..., Complete
PhaseRank(d) ==
    IF d.phase = "NotStarted" THEN 0
    ELSE IF d.phase = "InSection" THEN d.index + 1
    ELSE NSections + 1

\* C5: from one rendering to the tick that follows it, with the schedule left
\* alone, the phase stays where it is or moves forward along NotStarted,
\* InSection(0), ..., InSection(last), Complete.
C5_PhaseOnlyAdvances ==
    [][ /\ lastOp.op \in {"startup", "tick"}
        /\ lastOp'.op = "tick"
        /\ ValidSchedule(presentationData)
        /\ NSections > 0
        => PhaseRank(display') >= PhaseRank(display) ]_vars

\* C6: a valid schedule that the page shows as not yet started when it loads
\* is, with the timer running and nothing else done, eventually shown as
\* Complete.
C6_RunsToComplete ==
    ( /\ lastOp.op = "startup"
      /\ ValidSchedule(presentationData)
      /\ NSections > 0
      /\ display.phase = "NotStarted" ) ~> (display.phase = "Complete")

\* C7: a start-time handler given a value that is not a time of day leaves
\* the schedule as it was.
C7_InvalidStartRejected ==
    [][ /\ lastOp'.op \in {"startTimeChange", "startTimeInput"}
        /\ lastOp'.str.k \notin {"hms", "loose"}
        => presentationData' = presentationData ]_vars

\* C8: updateSectionDuration with an index outside 0..length-1, or with a new
\* duration below 1 or not a number, leaves the schedule exactly as it was.
C8_RefusedEditChangesNothing ==
    [][ /\ lastOp'.op = "updateSectionDuration"
        /\ \/ lastOp'.idx \notin 0..(NSections - 1)
           \/ lastOp'.val = NaN
           \/ lastOp'.val < 1
        => presentationData' = presentationData ]_vars

\* C8 witness: a schedule with sections on which updateSectionDuration(0, 0)
\* has just been called
C8_Witness ==
    /\ lastOp.op = "updateSectionDuration"
    /\ lastOp.idx = 0
    /\ lastOp.val = 0
    /\ NSections >= 2

\* the time string `minutes` minutes after the time string str
Moved(str, minutes) ==
    IF str.k = "hms" THEN Hms((str.s + minutes * 60) % DaySec) ELSE NaNStr

\* C9: updateSectionDuration(k, d) with k in range and d >= 1 sets the
\* duration of section k to d, leaves the sections before k and the start of
\* section k as they were, and moves the end of section k and the start and
\* end of every later section by d minus the old duration, in minutes.
C9_AcceptedEditShiftsTail ==
    [][ /\ lastOp'.op = "updateSectionDuration"
        /\ lastOp'.idx \in 0..(NSections - 1)
        /\ lastOp'.val # NaN
        /\ lastOp'.val >= 1
        => LET k == lastOp'.idx + 1
               old == presentationData.sections
               new == presentationData'.sections
               shift == lastOp'.val - old[k].duration
           IN  /\ Len(new) = Len(old)
               /\ new[k].duration = lastOp'.val
               /\ \A j \in 1..(k - 1) : new[j] = old[j]
               /\ new[k].start = old[k].start
               /\ new[k].end = Moved(old[k].end, shift)
               /\ \A j \in (k + 1)..Len(old) :
                     /\ new[j].start = Moved(old[j].start, shift)
                     /\ new[j].end = Moved(old[j].end, shift) ]_vars

\* C10: adjustTimes(delta) called on a valid schedule while the clock is
\* before the start leaves a start time that resolves to the instant delta
\* minutes after the one it resolved to before.
C10_StartShiftsByDelta ==
    [][ /\ lastOp'.op = "adjustTimes"
        /\ ValidSchedule(presentationData)
        /\ NSections > 0
        /\ now < StartInstant
        => /\ parseTime(presentationData'.start_time, NoRef, now).ok
           /\ parseTime(presentationData'.start_time, NoRef, now).v
                 = StartInstant + lastOp'.val * MinuteMs ]_vars

\* C11: adjustTimes(delta) called while a section is current changes the
\* duration of the section that is current at the clock reading (the one
\* getCurrentSection resolves) and of no other section, also when two
\* sections carry the same name.
C11_AdjustsCurrentSectionOnly ==
    [][ /\ lastOp'.op = "adjustTimes"
        /\ ValidSchedule(presentationData)
        /\ now >= StartInstant
        /\ getCurrentSection(presentationData, now).found
        => LET cur == getCurrentSection(presentationData, now).index + 1
               old == presentationData.sections
               new == presentationData'.sections
           IN  /\ Len(new) = Len(old)
               /\ \A j \in 1..Len(old) :
                     j # cur => new[j].duration = old[j].duration ]_vars

\* C12: adjustTimes(delta) called while a section is current whose duration
\* plus delta is below 1 is a silent no-op: the schedule is left as it was
\* and nothing is thrown (the display stays as rendered).
C12_BelowOneMinuteIsNoOp ==
    [][ /\ lastOp'.op = "adjustTimes"
        /\ ValidSchedule(presentationData)
        /\ now >= StartInstant
        /\ getCurrentSection(presentationData, now).found
        /\ presentationData.sections[getCurrentSection(presentationData, now).index + 1]
              .duration + lastOp'.val < 1
        => /\ presentationData' = presentationData
           /\ display' = display ]_vars

\* a configuration text with no sections, or with a section that has an empty
\* name, no duration, or a duration that is not a number or is below 1
BadText(text) ==
    \/ Len(text.sections) = 0
    \/ \E i \in 1..Len(text.sections) :
          \/ text.sections[i].name = ""
          \/ ~IsNum(text.sections[i].duration)
          \/ text.sections[i].duration <= 0

\* the text whose reader.onload ran in this step
Loaded == CHOOSE text \in pending : text \notin pending'

\* C13: decoding a configuration text with no sections, or with a section
\* that has an empty name, no duration, or a zero, negative or non-numeric
\* duration throws, so that importing it installs no schedule.
C13_BadTextDoesNotDecode ==
    [][ lastOp'.op = "importLoad" /\ BadText(Loaded)
        => /\ ~parseYAMLData(Loaded, now).ok
           /\ presentationData' = presentationData
           /\ storage' = storage ]_vars

\* a configuration text the decoder has to refuse: no sections, an empty
\* name, or a section without duration
MustThrow(text) ==
    \/ Len(text.sections) = 0
    \/ \E i \in 1..Len(text.sections) :
          text.sections[i].name = "" \/ text.sections[i].duration = Undefined

\* C14: an import whose decode throws leaves the schedule in force, its title
\* and start time, and the persisted text exactly as they were; no part of
\* the imported sections is installed.
C14_FailedImportKeepsSchedule ==
    [][ lastOp'.op = "importLoad" /\ MustThrow(Loaded)
        => /\ presentationData' = presentationData
           /\ storage' = storage
           /\ display' = display ]_vars

\* the import of T_half has failed over the running schedule of T_demo
C14_Witness ==
    /\ lastOp.op = "importLoad"
    /\ ops = 1
    /\ pending = {}
    /\ storage = NoText
    /\ presentationData.title = "Demo"
    /\ Len(presentationData.sections) = 3

\* C15: in every reachable state every section of the schedule in force has a
\* duration that is a whole number of minutes, at least 1.
C15_DurationsAtLeastOne ==
    \A i \in 1..Len(presentationData.sections) :
        /\ IsNum(presentationData.sections[i].duration)
        /\ presentationData.sections[i].duration >= 1

\* the names of the sections of a schedule or of a configuration text
Names(x) == [i \in 1..Len(x.sections) |-> x.sections[i].name]

\* C16: an import that decodes replaces the whole schedule, title, start time
\* and section list, by the decoded one; an updateSectionDuration or
\* adjustTimes after it works on the sections of the imported schedule only:
\* no section and no start time of the replaced schedule comes back.
C16_ImportReplacesWholeSchedule ==
    [][ /\ lastOp'.op = "importLoad" /\ parseYAMLData(Loaded, now).ok
           => /\ presentationData' = parseYAMLData(Loaded, now).v
              /\ presentationData'.title = Loaded.title
              /\ presentationData'.start_time = Loaded.start_time
              /\ Names(presentationData') = Names(Loaded)
              /\ \A i \in 1..Len(Loaded.sections) :
                    presentationData'.sections[i].duration = Loaded.sections[i].duration
        /\ lastOp'.op \in {"updateSectionDuration", "adjustTimes"} /\ storage \in ImportTexts
           => /\ presentationData'.title = storage.title
              /\ Names(presentationData') = Names(storage)
              /\ presentationData'.start_time.k = "hms"
                    => presentationData'.sections[1].start = presentationData'.start_time
              /\ \A i \in 1..Len(storage.sections) :
                    \/ presentationData'.sections[i].duration
                          = presentationData.sections[i].duration
                    \/ presentationData'.sections[i].duration = lastOp'.val
                    \/ presentationData'.sections[i].duration
                          = presentationData.sections[i].duration + lastOp'.val ]_vars

\* the second section of the imported T_long was set to 20 minutes
C16_Witness ==
    /\ lastOp.op = "updateSectionDuration"
    /\ ops = 2
    /\ storage = T_long
    /\ presentationData.title = "Long"
    /\ presentationData.sections[2].duration = 20
    /\ presentationData.sections[2].name = "L2"

\* C17: when a text fails to decode at startup (the persisted text or the
\* default configuration file), the page still ends its startup with a
\* schedule in force, the last good one or the empty default, and with the
\* periodic tick started.
C17_DecodeFailureStillStartsTick ==
    lastOp.op = "startup" /\ lastOp.val > 0
        => /\ ~presentationData.isNull
           /\ listening
           /\ intervalOn

\* C18: once the periodic tick is started it stays started, also across a
\* tick in which updateDisplay throws; and a tick that finds a valid schedule
\* renders it (nothing thrown, one of the three phases shown), whatever the
\* ticks before it did.
C18_FailedTickKeepsDriver ==
    [][ /\ intervalOn => intervalOn'
        /\ lastOp'.op = "tick" /\ ValidSchedule(presentationData')
              /\ Len(presentationData'.sections) > 0
           => /\ display'.ok
              /\ display'.phase \in {"NotStarted", "InSection", "Complete"} ]_vars

\* a tick has thrown on a schedule whose start time was cleared, and the
\* timer is still set
C18_Witness ==
    /\ lastOp.op = "tick"
    /\ ~display.ok
    /\ presentationData.start_time = EmptyStr
    /\ intervalOn

\* the start and end of every section are the ones recalculateTimesFromStart
\* derives from the schedule's start_time and the sections' durations
Derived(data) ==
    Len(data.sections) > 0 =>
        /\ parseTime(data.start_time, NoRef, now).ok
        /\ data.sections
              = deriveTimes(data.sections, 1, parseTime(data.start_time, NoRef, now).v,
                            now, FALSE).secs

\* C19: whatever the interleaving of ticks, user operations and import
\* completions, the schedule a tick has read is completely applied: every
\* section's start and end are the values derived from the schedule's
\* current start_time and current durations.
C19_TickReadsDerivedSchedule ==
    lastOp.op = "tick" => Derived(presentationData)

\* the schedule in force is the one decoded from `text`, up to the durations
\* the user has typed since
InForceFrom(text) ==
    /\ presentationData.title = text.title
    /\ presentationData.start_time = text.start_time
    /\ Names(presentationData) = Names(text)
    /\ \A i \in 1..Len(text.sections) :
          \/ presentationData.sections[i].duration = text.sections[i].duration
          \/ <<i - 1, presentationData.sections[i].duration>> \in DurationRequests

\* C20: with several imports in flight, every completion that decodes installs
\* exactly its own decoded schedule (no duration typed before it is kept) and
\* every completion that does not decode changes nothing, in whatever order
\* they complete; so once all have completed the schedule in force is the one
\* of the most recently completed successful decode, which is also the text
\* persisted.
C20_LastCompletedImportWins ==
    [][ /\ lastOp'.op = "importLoad"
           => IF parseYAMLData(Loaded, now).ok
              THEN /\ presentationData' = parseYAMLData(Loaded, now).v
                   /\ storage' = Loaded
              ELSE /\ presentationData' = presentationData
                   /\ storage' = storage
        /\ (pending = {} /\ storage \in ImportTexts => InForceFrom(storage))' ]_vars

\* two imports were in flight together and have completed one right after
\* the other; the schedule of T_long is in force
C20_Witness ==
    /\ lastOp.op = "importLoad"
    /\ lastOp.val = 2
    /\ pending = {}
    /\ storage = T_long
    /\ presentationData.title = "Long"

\* a tick has just rendered the timeline of a schedule with sections
TickRendered ==
    /\ lastOp.op = "tick"
    /\ display.ok
    /\ Len(presentationData.sections) > 0

\* the end of section i as the timeline resolves it at the clock reading
RowEnd(i) == resolveSection(presentationData, i, now).end

\* the start of section i as the timeline resolves it at the clock reading
RowStart(i) == resolveSection(presentationData, i, now).start

\* the sections whose times the timeline can resolve
Rows == {i \in 1..Len(presentationData.sections) :
            resolveSection(presentationData, i, now).ok}

Classified(remaining) ==
    IF remaining <= 60000 THEN "red"
    ELSE IF remaining <= 300000 THEN "yellow"
    ELSE "green"

\* C22: while a section is current the countdown readout is red when the
\* remaining time is at most 60000 ms (zero and below included), yellow when
\* it is above 60000 and at most 300000 ms, green above 300000 ms; so it is
\* for the readout on the page and at each threshold value.
C22_ReadoutColourByRemaining ==
    /\ display.ok /\ display.phase = "InSection"
          => display.color = Classified(display.readout)
    /\ \A r \in {-1, 0, 1, 60000, 60001, 300000, 300001} :
          readoutColor(r) = Classified(r)

\* a section with exactly one minute left is shown with a red readout
C22_Witness ==
    /\ display.ok
    /\ display.phase = "InSection"
    /\ display.readout = 60000
    /\ display.color = "red"

\* C23: after a tick that shows a current section, the timeline row of that
\* section is red when the section has one minute or less remaining, yellow
\* when it has less than five minutes remaining, and green otherwise.
C23_CurrentRowByRemaining ==
    TickRendered /\ display.phase = "InSection" /\ (display.index + 1) \in Rows
        => timeline[display.index + 1]
              = (IF display.readout <= OneMinuteMs THEN "red"
                 ELSE IF display.readout < FiveMinutesMs THEN "yellow"
                 ELSE "green")

\* C24: after a tick has rendered the timeline, the row of every upcoming
\* section, one whose resolved start is after now, is green, whatever the
\* duration of the section (schedules whose sections are shorter than a day).
C24_UpcomingRowsGreen ==
    /\ TickRendered
    /\ ValidSchedule(presentationData)
    /\ \A i \in 1..Len(presentationData.sections) :
          presentationData.sections[i].duration < DayMinutes
    => \A i \in Rows : RowStart(i) > now => timeline[i] = "green"

\* the schedule after recalculateTimesFromStart(s) at the clock reading
Recomputed(data, s) == recalculateTimesFromStart(data, s, now).data

\* C25: on every schedule the page can hold and for every start time it can
\* be given (the one in force, a cleared one, 23:59), recomputing twice in a
\* row with the same start time leaves every section with exactly the start
\* and end that recomputing once leaves.
C25_RecomputeIdempotent ==
    \A s \in StartInputs \cup {presentationData.start_time} :
        Recomputed(Recomputed(presentationData, s), s) = Recomputed(presentationData, s)

\* the start-time handler has recomputed a three-section schedule from 23:59
C25_Witness ==
    /\ lastOp.op = "startTimeChange"
    /\ lastOp.str = Hms(At(23, 59, 0))
    /\ Len(presentationData.sections) = 3
    /\ presentationData.sections[1].start = Hms(At(23, 59, 0))
    /\ presentationData.sections[3].end # presentationData.sections[1].start

\* the durations of the sections of a schedule or of a configuration text
Durations(x) == [i \in 1..Len(x.sections) |-> x.sections[i].duration]

\* C26: decode, start-time change, duration change and +/- adjustment keep
\* the sections, their order and their names (a decode yields the sections
\* of the text in the order of the text); a start-time change (typed or Now)
\* leaves the title and every duration as they were; a duration change on
\* section k leaves the title, start_time and every other duration as they
\* were.
C26_FrameOfMutations ==
    [][ /\ lastOp'.op = "importLoad" /\ parseYAMLData(Loaded, now).ok
           => /\ Names(presentationData') = Names(Loaded)
              /\ Durations(presentationData') = Durations(Loaded)
        /\ lastOp'.op \in {"startTimeChange", "startTimeInput", "now",
                            "updateSectionDuration", "adjustTimes"}
           => Names(presentationData') = Names(presentationData)
        /\ lastOp'.op \in {"startTimeChange", "startTimeInput", "now"}
           => /\ presentationData'.title = presentationData.title
              /\ Durations(presentationData') = Durations(presentationData)
        /\ lastOp'.op = "updateSectionDuration"
           => /\ presentationData'.title = presentationData.title
              /\ presentationData'.start_time = presentationData.start_time
              /\ \A j \in 1..Len(presentationData.sections) :
                    j # lastOp'.idx + 1
                    => presentationData'.sections[j].duration
                          = presentationData.sections[j].duration ]_vars

\* the second section of the 09:00 schedule was set to 20 minutes: title,
\* names and the other two durations are as before
C26_Witness ==
    /\ lastOp.op = "updateSectionDuration"
    /\ lastOp.idx = 1
    /\ presentationData.title = "Demo"
    /\ Names(presentationData) = <<"Intro", "Body", "QA">>
    /\ Durations(presentationData) = <<10, 20, 15>>

\* the wall-clock time of day at the clock reading, in whole seconds
WallClockSeconds == ((now - (now % SecMs)) % DayMs) \div SecMs

\* the page has just loaded the configuration that has neither title nor
\* start_time
LoadedBare == lastOp.op = "startup" /\ Names(presentationData) = Names(T_bare)

\* C27: a text without title decodes to the title 'Presentation Timer', a
\* text without start_time decodes to the wall-clock time of the decode cut
\* to whole seconds, and the decode succeeds when the sections are valid; so
\* for the decoder at every clock reading and for the schedule the page holds
\* after loading such a text.
C27_DecodeDefaults ==
    /\ \A text \in {T_bare, T_night} :
          /\ parseYAMLData(text, now).ok
          /\ text.title = "" => parseYAMLData(text, now).v.title = "Presentation Timer"
          /\ text.start_time = EmptyStr
                => parseYAMLData(text, now).v.start_time = Hms(WallClockSeconds)
    /\ LoadedBare
          => /\ presentationData.title = "Presentation Timer"
             /\ presentationData.start_time = Hms(WallClockSeconds)
             /\ presentationData.sections[1].start = Hms(WallClockSeconds)

\* the text without title and start_time was loaded at 09:00:00.500 and the
\* schedule starts at 09:00:00
C27_Witness ==
    /\ LoadedBare
    /\ now % SecMs = 500
    /\ presentationData.title = "Presentation Timer"
    /\ presentationData.start_time = Hms(At(9, 0, 0))
    /\ display.phase = "InSection"

\* the schedule in force has no sections
EmptySchedule == ~presentationData.isNull /\ Len(presentationData.sections) = 0

\* C28: on a schedule without sections every tick renders the 'no data'
\* state and throws nothing, and every +/-, start-time edit and Now completes
\* with nothing thrown, the 'no data' state rendered, the schedule still
\* without sections and the timer still set, so that the ticks after it
\* render as well.
C28_EmptyScheduleRenders ==
    [][ /\ EmptySchedule
        /\ lastOp'.op \in {"tick", "adjustTimes", "startTimeChange", "now"}
              \/ (lastOp'.op = "startTimeInput" /\ Truthy(lastOp'.str))
        => /\ display'.ok
           /\ display'.phase = "NoData"
           /\ timeline' = <<>>
           /\ Len(presentationData'.sections) = 0
           /\ intervalOn' = intervalOn ]_vars

\* a tick has rendered 'no data' on an empty schedule whose start time was
\* cleared
C28_Witness ==
    /\ lastOp.op = "tick"
    /\ EmptySchedule
    /\ presentationData.start_time = EmptyStr
    /\ display.ok
    /\ display.phase = "NoData"
    /\ intervalOn

\* C29: after a tick on a valid schedule, while a section is current the
\* time shown is the resolved end of that section minus now, and once the
\* phase is Complete, with the last section over, the time shown is now minus
\* the resolved end of the last section.
C29_ReadoutIsDistanceToEnd ==
    TickRendered /\ ValidSchedule(presentationData)
        => /\ display.phase = "InSection" /\ (display.index + 1) \in Rows
                 => display.readout = RowEnd(display.index + 1) - now
           /\ display.phase = "Complete" /\ Len(presentationData.sections) \in Rows
                 /\ now >= RowEnd(Len(presentationData.sections))
                 => display.readout = now - RowEnd(Len(presentationData.sections))

\* C30: when a tick resolves as current a section other than the one the
\* tick or page load before it resolved, the section-change effect (auto-
\* scroll, which runs exactly when updateTimelineDisplay stores a new
\* previousSectionName) fires on that tick, also when the two sections have
\* the same name.
C30_SectionChangeScrolls ==
    [][ /\ lastOp'.op = "tick"
        /\ display.ok /\ display.phase = "InSection"
        /\ display'.ok /\ display'.phase = "InSection"
        /\ display'.index # display.index
        => previousSectionName' # previousSectionName ]_vars

\* C31: after the Now button was pressed on a schedule with at least one
\* section, the start time is the wall clock in whole seconds, the first
\* section starts at it, and the render of the handler shows the first
\* section as current, never NotStarted.
C31_NowStartsFirstSection ==
    lastOp.op = "now" /\ ~presentationData.isNull /\ Len(presentationData.sections) > 0
        => /\ presentationData.start_time = Hms(WallClockSeconds)
           /\ presentationData.sections[1].start = Hms(WallClockSeconds)
           /\ display.ok
           /\ display.phase = "InSection"
           /\ display.index = 0

\* C32: when a tick follows a tick or the page load with the schedule left
\* as it was, every section resolves at the later clock reading to the same
\* start and end instants as at the earlier one; a section resolved to
\* [23:50, 00:10 next day) is resolved to that interval after midnight too.
C32_ResolvedInstantsAreStable ==
    [][ /\ lastOp'.op = "tick"
        /\ now' > now
        /\ ~presentationData.isNull
        /\ presentationData' = presentationData
        => \A i \in 1..Len(presentationData.sections) :
              resolveSection(presentationData, i, now')
                  = resolveSection(presentationData, i, now) ]_vars

\* C33: at every clock reading the sections of the schedule in force resolve
\* to intervals that follow one another without gap or overlap (the resolved
\* end of a section is the resolved start of the next), so at most one
\* interval contains now; also when the durations sum to a day or more.
C33_IntervalsContiguous ==
    ~presentationData.isNull =>
        /\ \A i \in Rows : (i + 1) \in Rows => RowEnd(i) = RowStart(i + 1)
        /\ Cardinality({i \in 1..NSections : Within(i)}) <= 1

\* C34: whenever the page shows 'Time Until Start', getCurrentSection(now)
\* returns null, the timeline update has stored no current section name and
\* so no row of the timeline is the highlighted one.
C34_NoCurrentBeforeStart ==
    display.ok /\ display.phase = "NotStarted"
        => /\ now < StartInstant
           /\ ~getCurrentSection(presentationData, now).found
           /\ previousSectionName = NullName
           /\ findIndex(presentationData, previousSectionName) = -1

\* a tick one minute before the start of a schedule of three sections
C34_Witness ==
    /\ TickRendered
    /\ display.phase = "NotStarted"
    /\ display.readout = MinuteMs
    /\ NSections = 3
    /\ previousSectionName = NullName

\* C35: whenever the page shows a section as current, the remaining time it
\* shows is above 0 and at most the section's duration in milliseconds.
C35_RemainingWithinDuration ==
    display.ok /\ display.phase = "InSection" /\ (display.index + 1) \in 1..NSections
        => /\ 0 < display.readout
           /\ IsNum(presentationData.sections[display.index + 1].duration)
           /\ display.readout
                 <= presentationData.sections[display.index + 1].duration * MinuteMs

\* C36: whenever the page shows 'Presentation Complete' on a schedule with
\* sections, now is at or after the resolved end of the last section; the
\* empty readout of the branch "before the last section ends" is shown
\* exactly when now is that end, and the elapsed time otherwise.
C36_CompleteIsAfterLastEnd ==
    display.ok /\ display.phase = "Complete" /\ NSections > 0
        => /\ NSections \in Rows
           /\ now >= RowEnd(NSections)
           /\ display.readout = EmptyReadout <=> now = RowEnd(NSections)
           /\ display.readout # EmptyReadout
                 => display.readout = now - RowEnd(NSections)

\* a tick at the very end of the last of three sections: Complete, with
\* the empty readout
C36_Witness ==
    /\ TickRendered
    /\ display.phase = "Complete"
    /\ NSections = 3
    /\ now = RowEnd(NSections)
    /\ display.readout = EmptyReadout

\* the presentation has started and no section is current at the clock
AfterLastSection ==
    /\ ~presentationData.isNull
    /\ parseTime(presentationData.start_time, NoRef, now).ok
    /\ now >= StartInstant
    /\ ~getCurrentSection(presentationData, now).found

\* C37: adjustTimes(+1) or adjustTimes(-1) called when now is at or after
\* the start and no section is current leaves the schedule, and what the
\* page shows, exactly as they were.
C37_AdjustAfterEndIsNoOp ==
    [][ lastOp'.op = "adjustTimes" /\ AfterLastSection
        => /\ presentationData' = presentationData
           /\ display' = display
           /\ previousSectionName' = previousSectionName
           /\ timeline' = timeline
           /\ storage' = storage ]_vars

\* + or - was pressed on a schedule of three sections that shows
\* 'Presentation Complete' with an elapsed time
C37_Witness ==
    /\ lastOp.op = "adjustTimes"
    /\ AfterLastSection
    /\ NSections = 3
    /\ display.ok
    /\ display.phase = "Complete"
    /\ display.readout > 0

\* the handlers that edit the schedule or only read it
NonImportOps ==
    {"tick", "startTimeChange", "startTimeInput", "now", "adjustTimes",
     "updateSectionDuration", "importStart"}

C39_NextSectionReadout ==
    TickRendered =>
        /\ display.phase = "InSection" /\ display.index + 1 < NSections
              => nextSection = NextText(presentationData.sections[display.index + 2])
        /\ display.phase = "NotStarted"
              => nextSection = NextText(presentationData.sections[1])
        /\ display.phase = "InSection" /\ display.index + 1 = NSections
              => nextSection = EndOfPresentation
        /\ display.phase = "Complete"
              => nextSection = EndOfPresentation

====
